---- MODULE Spec2Model ----
(***************************************************************************)
(* Model of the transfer transaction of simple-bank, db/sqlc/store.go:     *)
(* SQLStore.TransferTx, SQLStore.execTx, validateTransferParams and        *)
(* updateAccountBalances, run by concurrent callers against one store.     *)
(* The store itself (the generated Querier and the database's            *)
(* transactions and row locks) is not part of store.go; it is modelled     *)
(* from sections 5 and 6 of the specification: uncommitted writes are      *)
(* private to their transaction, a row lock is exclusive and held until    *)
(* the transaction ends, and every data-access call may fail.              *)
(***************************************************************************)
EXTENDS Integers, Sequences, FiniteSets

(* ---- bounds ---- *)
NumAccounts == 3
MaxAmount == 2
StartBalance == 1

(* the concurrent calls of TransferTx: PairSpec runs all of them between two *)
(* accounts, Spec runs the calls of Callers with any parameters              *)
Calls == {1, 2, 3}
Callers == {1, 2}
Accounts == 1..NumAccounts
Amounts == (0 - 1)..MaxAmount
NoTx == 0

(* TransferTxParams, store.go 43-47 *)
TransferTxParams == [FromAccountID : Accounts, ToAccountID : Accounts, Amount : Amounts]

(* Go zero values of the row structs *)
ZeroTransfer == [ID |-> 0, FromAccountID |-> 0, ToAccountID |-> 0, Amount |-> 0]
ZeroEntry == [ID |-> 0, AccountID |-> 0, Amount |-> 0]
ZeroAccount == [ID |-> 0, Balance |-> 0]
ZeroParams == [FromAccountID |-> 0, ToAccountID |-> 0, Amount |-> 0]

(* TransferTxResult{}, store.go 49-55 *)
ZeroResult ==
  [Transfer |-> ZeroTransfer, FromAccount |-> ZeroAccount, ToAccount |-> ZeroAccount,
   FromEntry |-> ZeroEntry, ToEntry |-> ZeroEntry]

(* error values: nil, and the messages the code and the store produce *)
Nil == "nil"
ErrSameAccount == "cannot transfer to the same account"
ErrAmount == "amount must be positive"
ErrInsufficient == "insufficient balance"
ErrBegin == "begin failed"
ErrQuery == "query failed"
ErrCommit == "commit failed"
ErrRollback == "rollback failed"
InvalidRequest == {ErrSameAccount, ErrAmount}

VARIABLES
  balance,        \* committed Account rows: account id -> balance
  transfers,      \* committed Transfer rows
  entries,        \* committed Entry rows
  lock,           \* account id -> the call whose transaction holds the row lock
  txTransfers,    \* per call: Transfer rows written by its open transaction
  txEntries,      \* per call: Entry rows written by its open transaction
  delta,          \* per call: balance changes written by its open transaction
  pc,             \* per call: position in TransferTx / execTx
  arg,            \* per call: the TransferTxParams
  result,         \* per call: the TransferTxResult variable (returned at "done")
  err,            \* per call: the error TransferTx returned, the messages it carries
  fnErr,          \* per call: err in execTx after fn returned
  tx,             \* per call: the sql.Tx of execTx: "none", "open", or the call that
                  \* ended it, "commit" or "rollback"
  firstAccount,   \* per call: locals of updateAccountBalances
  secondAccount,
  fromAccount

vars == <<balance, transfers, entries, lock, txTransfers, txEntries, delta, pc, arg,
          result, err, fnErr, tx, firstAccount, secondAccount, fromAccount>>

store == <<balance, transfers, entries>>
txWrites == <<txTransfers, txEntries, delta>>
locals == <<firstAccount, secondAccount, fromAccount>>

NoDelta == [a \in Accounts |-> 0]

Init ==
  /\ balance = [a \in Accounts |-> StartBalance]
  /\ transfers = {}
  /\ entries = {}
  /\ lock = [a \in Accounts |-> NoTx]
  /\ txTransfers = [c \in Calls |-> {}]
  /\ txEntries = [c \in Calls |-> {}]
  /\ delta = [c \in Calls |-> NoDelta]
  /\ pc = [c \in Calls |-> "idle"]
  /\ arg = [c \in Calls |-> ZeroParams]
  /\ result = [c \in Calls |-> ZeroResult]
  /\ err = [c \in Calls |-> <<>>]
  /\ fnErr = [c \in Calls |-> Nil]
  /\ tx = [c \in Calls |-> "none"]
  /\ firstAccount = [c \in Calls |-> ZeroAccount]
  /\ secondAccount = [c \in Calls |-> ZeroAccount]
  /\ fromAccount = [c \in Calls |-> ZeroAccount]

(* mutant: nothing is validated *)
validateTransferParamsNone(a) == Nil

(* mutant: the same-account test is missing *)
validateTransferParamsAmountOnly(a) == IF a.Amount <= 0 THEN ErrAmount ELSE Nil

(* mutant: a zero amount is let through *)
validateTransferParamsNegativeOnly(a) ==
  IF a.FromAccountID = a.ToAccountID THEN ErrSameAccount
  ELSE IF a.Amount < 0 THEN ErrAmount
  ELSE Nil

(* validateTransferParams, store.go 100-108 *)
validateTransferParams(a) ==
  IF a.FromAccountID = a.ToAccountID THEN ErrSameAccount
  ELSE IF a.Amount <= 0 THEN ErrAmount
  ELSE Nil

(* TransferTx entry: validation, store.go 57-63 *)
TransferTx(c, a) ==
  /\ pc[c] = "idle"
  /\ arg' = [arg EXCEPT ![c] = a]
  /\ IF validateTransferParams(a) # Nil
     THEN /\ err' = [err EXCEPT ![c] = <<validateTransferParams(a)>>]
          /\ pc' = [pc EXCEPT ![c] = "done"]
     ELSE /\ pc' = [pc EXCEPT ![c] = "begin"]
          /\ err' = err
  /\ result' = [result EXCEPT ![c] = ZeroResult]
  /\ UNCHANGED <<tx, store, lock, txWrites, fnErr, locals>>

(* execTx: BeginTx, store.go 27-31 *)
BeginTx(c) ==
  /\ pc[c] = "begin"
  /\ \/ /\ pc' = [pc EXCEPT ![c] = "createTransfer"]
        /\ tx' = [tx EXCEPT ![c] = "open"]
        /\ UNCHANGED err
     \/ /\ err' = [err EXCEPT ![c] = <<ErrBegin>>]
        /\ pc' = [pc EXCEPT ![c] = "done"]
        /\ UNCHANGED tx
  /\ UNCHANGED <<store, lock, txWrites, arg, result, fnErr, locals>>

(* mutant: execTx commits whatever fn returned *)
execTxNextAlwaysCommit(e) == "commit"

(* execTx after fn returned, store.go 33-40: roll back on error, else commit *)
execTxNext(e) == IF e # Nil THEN "rollback" ELSE "commit"

(* fn returns e to execTx (store.go 33); the locals of updateAccountBalances die *)
FnReturn(c, e) ==
  /\ fnErr' = [fnErr EXCEPT ![c] = e]
  /\ pc' = [pc EXCEPT ![c] = execTxNext(e)]
  /\ firstAccount' = [firstAccount EXCEPT ![c] = ZeroAccount]
  /\ secondAccount' = [secondAccount EXCEPT ![c] = ZeroAccount]
  /\ fromAccount' = [fromAccount EXCEPT ![c] = ZeroAccount]

(* a data-access call of fn fails: fn returns the store's error *)
QueryFails(c) == FnReturn(c, ErrQuery)

(* Querier.CreateTransfer: inserts a row under a fresh id (one per call) *)
CreateTransferRow(c, p) ==
  [ID |-> c, FromAccountID |-> p.FromAccountID, ToAccountID |-> p.ToAccountID,
   Amount |-> p.Amount]

(* Querier.CreateEntry: inserts a row under a fresh id *)
CreateEntryRow(id, p) == [ID |-> id, AccountID |-> p.AccountID, Amount |-> p.Amount]

FromEntryID(c) == 2 * c - 1
ToEntryID(c) == 2 * c

(* mutant: source and destination are swapped in the Transfer row *)
CreateTransferParamsSwapped(a) ==
  [FromAccountID |-> a.ToAccountID, ToAccountID |-> a.FromAccountID, Amount |-> a.Amount]

(* CreateTransferParams(arg), store.go 69 *)
CreateTransferParams(a) ==
  [FromAccountID |-> a.FromAccountID, ToAccountID |-> a.ToAccountID, Amount |-> a.Amount]

(* mutant: the debit entry carries the amount itself *)
FromEntryParamsNotNegated(a) == [AccountID |-> a.FromAccountID, Amount |-> a.Amount]

(* CreateEntryParams of the debit entry, store.go 75-78 *)
FromEntryParams(a) == [AccountID |-> a.FromAccountID, Amount |-> 0 - a.Amount]

(* mutant: the credit entry is booked on the source account *)
ToEntryParamsFromID(a) == [AccountID |-> a.FromAccountID, Amount |-> a.Amount]

(* CreateEntryParams of the credit entry, store.go 83-86 *)
ToEntryParams(a) == [AccountID |-> a.ToAccountID, Amount |-> a.Amount]

(* fn: create transfer record, store.go 68-72 *)
CreateTransfer(c) ==
  /\ pc[c] = "createTransfer"
  /\ \/ /\ txTransfers' = [txTransfers EXCEPT
                             ![c] = @ \cup {CreateTransferRow(c, CreateTransferParams(arg[c]))}]
        /\ result' = [result EXCEPT
                        ![c].Transfer = CreateTransferRow(c, CreateTransferParams(arg[c]))]
        /\ pc' = [pc EXCEPT ![c] = "createFromEntry"]
        /\ UNCHANGED <<fnErr, locals>>
     \/ /\ QueryFails(c)
        /\ UNCHANGED <<txTransfers, result>>
  /\ UNCHANGED <<tx, store, lock, txEntries, delta, arg, err>>

(* fn: create the debit entry, store.go 75-81 *)
CreateFromEntry(c) ==
  /\ pc[c] = "createFromEntry"
  /\ \/ /\ txEntries' = [txEntries EXCEPT
                           ![c] = @ \cup {CreateEntryRow(FromEntryID(c), FromEntryParams(arg[c]))}]
        /\ result' = [result EXCEPT
                        ![c].FromEntry = CreateEntryRow(FromEntryID(c), FromEntryParams(arg[c]))]
        /\ pc' = [pc EXCEPT ![c] = "createToEntry"]
        /\ UNCHANGED <<fnErr, locals>>
     \/ /\ QueryFails(c)
        /\ UNCHANGED <<txEntries, result>>
  /\ UNCHANGED <<tx, store, lock, txTransfers, delta, arg, err>>

(* fn: create the credit entry, store.go 83-89 *)
CreateToEntry(c) ==
  /\ pc[c] = "createToEntry"
  /\ \/ /\ txEntries' = [txEntries EXCEPT
                           ![c] = @ \cup {CreateEntryRow(ToEntryID(c), ToEntryParams(arg[c]))}]
        /\ result' = [result EXCEPT
                        ![c].ToEntry = CreateEntryRow(ToEntryID(c), ToEntryParams(arg[c]))]
        /\ pc' = [pc EXCEPT ![c] = "lockFirst"]
        /\ UNCHANGED <<fnErr, locals>>
     \/ /\ QueryFails(c)
        /\ UNCHANGED <<txEntries, result>>
  /\ UNCHANGED <<tx, store, lock, txTransfers, delta, arg, err>>

(* mutant: the comparison is inverted, the larger account id comes first *)
LockOrderDescending(a) ==
  IF a.FromAccountID < a.ToAccountID
  THEN <<a.ToAccountID, a.FromAccountID>>
  ELSE <<a.FromAccountID, a.ToAccountID>>

(* mutant: the locks are taken source first, destination second *)
LockOrderUnsorted(a) == <<a.FromAccountID, a.ToAccountID>>

(* lock order, store.go 112-116: the smaller account id first *)
LockOrder(a) ==
  IF a.FromAccountID > a.ToAccountID
  THEN <<a.ToAccountID, a.FromAccountID>>
  ELSE <<a.FromAccountID, a.ToAccountID>>

firstAccountID(a) == LockOrder(a)[1]
secondAccountID(a) == LockOrder(a)[2]

(* mutant: a balance equal to the amount is refused *)
InsufficientBalanceOrEqual(a, first, second) ==
  \/ firstAccountID(a) = a.FromAccountID /\ first.Balance <= a.Amount
  \/ secondAccountID(a) = a.FromAccountID /\ second.Balance <= a.Amount

(* mutant: the balance check is keyed on the lock order, not on the source *)
InsufficientBalanceFirstLocked(a, first, second) == first.Balance < a.Amount

(* mutant: the balance is checked only when the source is locked first *)
InsufficientBalanceFirstOnly(a, first, second) ==
  firstAccountID(a) = a.FromAccountID /\ first.Balance < a.Amount

(* the balance check, store.go 129-137, on the two locked rows *)
InsufficientBalance(a, first, second) ==
  \/ firstAccountID(a) = a.FromAccountID /\ first.Balance < a.Amount
  \/ secondAccountID(a) = a.FromAccountID /\ second.Balance < a.Amount

(* mutant: the debit is not negated *)
FromBalanceParamsNotNegated(a) == [ID |-> a.FromAccountID, Amount |-> a.Amount]

(* AddAccountBalanceParams of the debit, store.go 140-143 *)
FromBalanceParams(a) == [ID |-> a.FromAccountID, Amount |-> 0 - a.Amount]

(* mutant: the credit is applied to the source account id *)
ToBalanceParamsFromID(a) == [ID |-> a.FromAccountID, Amount |-> a.Amount]

(* AddAccountBalanceParams of the credit, store.go 148-151 *)
ToBalanceParams(a) == [ID |-> a.ToAccountID, Amount |-> a.Amount]

(* mutant: a row lock held by another transaction does not keep a call out *)
CanLockAlways(c, id) == TRUE

(* the row lock of account id is free for call c, or already held by its transaction *)
CanLock(c, id) == lock[id] \in {NoTx, c}

(* the Account row as the transaction of call c reads it: committed value plus own writes *)
AccountRow(c, id) == [ID |-> id, Balance |-> balance[id] + delta[c][id]]

(* Querier.GetAccountForUpdate: waits for the row lock, takes it, returns the row *)
GetAccountForUpdate(c, id) ==
  /\ CanLock(c, id)
  /\ lock' = [lock EXCEPT ![id] = c]

(* Querier.AddAccountBalance: an update of the row (it waits for and takes the row    *)
(* lock as every update does), adding p.Amount to the balance                         *)
AddAccountBalance(c, p) ==
  /\ CanLock(c, p.ID)
  /\ lock' = [lock EXCEPT ![p.ID] = c]
  /\ delta' = [delta EXCEPT ![c][p.ID] = @ + p.Amount]

(* the row AddAccountBalance returns *)
UpdatedRow(c, p) == [ID |-> p.ID, Balance |-> balance[p.ID] + delta[c][p.ID] + p.Amount]

(* updateAccountBalances: lock the first account, store.go 119-122 *)
LockFirst(c) ==
  /\ pc[c] = "lockFirst"
  /\ \/ /\ GetAccountForUpdate(c, firstAccountID(arg[c]))
        /\ firstAccount' = [firstAccount EXCEPT ![c] = AccountRow(c, firstAccountID(arg[c]))]
        /\ pc' = [pc EXCEPT ![c] = "lockSecond"]
        /\ UNCHANGED <<fnErr, secondAccount, fromAccount>>
     \/ /\ QueryFails(c)
        /\ UNCHANGED lock
  /\ UNCHANGED <<tx, store, txWrites, arg, result, err>>

(* updateAccountBalances: lock the second account and check the balance, *)
(* store.go 124-137                                                      *)
LockSecond(c) ==
  /\ pc[c] = "lockSecond"
  /\ \/ /\ GetAccountForUpdate(c, secondAccountID(arg[c]))
        /\ IF InsufficientBalance(arg[c], firstAccount[c],
                                  AccountRow(c, secondAccountID(arg[c])))
           THEN /\ FnReturn(c, ErrInsufficient)
           ELSE /\ secondAccount' = [secondAccount EXCEPT
                                      ![c] = AccountRow(c, secondAccountID(arg[c]))]
                /\ pc' = [pc EXCEPT ![c] = "addFrom"]
                /\ UNCHANGED <<fnErr, firstAccount, fromAccount>>
     \/ /\ QueryFails(c)
        /\ UNCHANGED lock
  /\ UNCHANGED <<tx, store, txWrites, arg, result, err>>

(* updateAccountBalances: debit the source, store.go 139-146 *)
AddFrom(c) ==
  /\ pc[c] = "addFrom"
  /\ \/ /\ AddAccountBalance(c, FromBalanceParams(arg[c]))
        /\ fromAccount' = [fromAccount EXCEPT ![c] = UpdatedRow(c, FromBalanceParams(arg[c]))]
        /\ pc' = [pc EXCEPT ![c] = "addTo"]
        /\ UNCHANGED <<fnErr, firstAccount, secondAccount>>
     \/ /\ QueryFails(c)
        /\ UNCHANGED <<lock, delta>>
  /\ UNCHANGED <<tx, store, txTransfers, txEntries, arg, result, err>>

(* mutant: the two rows are returned in the wrong order *)
ReturnedAccountsSwapped(from, to) == <<to, from>>

(* return fromAccount, toAccount, nil: store.go 156, stored by store.go 92 *)
ReturnedAccounts(from, to) == <<from, to>>

(* updateAccountBalances: credit the destination and return, store.go 148-156; *)
(* TransferTx stores the two rows, or two zero rows on error, store.go 92-93   *)
AddTo(c) ==
  /\ pc[c] = "addTo"
  /\ \/ /\ AddAccountBalance(c, ToBalanceParams(arg[c]))
        /\ LET rows == ReturnedAccounts(fromAccount[c],
                                        UpdatedRow(c, ToBalanceParams(arg[c])))
           IN result' = [result EXCEPT ![c].FromAccount = rows[1],
                                       ![c].ToAccount = rows[2]]
        /\ FnReturn(c, Nil)
     \/ /\ QueryFails(c)
        /\ UNCHANGED <<lock, delta, result>>
  /\ UNCHANGED <<tx, store, txTransfers, txEntries, arg, err>>

(* the transaction of call c ends: its row locks are released *)
Released(c) == [id \in Accounts |-> IF lock[id] = c THEN NoTx ELSE lock[id]]

(* mutant: the rollback error replaces the error of fn *)
RollbackErrorOnly(e, rbErr) == <<rbErr>>

(* the error execTx returns after a failed rollback, store.go 35-37 *)
RollbackError(e, rbErr) == <<e, rbErr>>

(* end of transaction: the private writes are dropped, the locals of fn are gone *)
TxOver(c) ==
  /\ lock' = Released(c)
  /\ txTransfers' = [txTransfers EXCEPT ![c] = {}]
  /\ txEntries' = [txEntries EXCEPT ![c] = {}]
  /\ delta' = [delta EXCEPT ![c] = NoDelta]
  /\ fnErr' = [fnErr EXCEPT ![c] = Nil]
  /\ pc' = [pc EXCEPT ![c] = "done"]

(* execTx: tx.Commit, store.go 40; TransferTx returns result and the error, 96 *)
Commit(c) ==
  /\ pc[c] = "commit"
  /\ \/ /\ balance' = [id \in Accounts |-> balance[id] + delta[c][id]]
        /\ transfers' = transfers \cup txTransfers[c]
        /\ entries' = entries \cup txEntries[c]
        /\ err' = [err EXCEPT ![c] = <<>>]
     \/ /\ err' = [err EXCEPT ![c] = <<ErrCommit>>]
        /\ UNCHANGED store
  /\ tx' = [tx EXCEPT ![c] = "commit"]
  /\ TxOver(c)
  /\ UNCHANGED <<arg, result, locals>>

(* execTx: tx.Rollback, store.go 34-39; TransferTx returns result and the error, 96 *)
Rollback(c) ==
  /\ pc[c] = "rollback"
  /\ \/ /\ err' = [err EXCEPT ![c] = <<fnErr[c]>>]
     \/ /\ err' = [err EXCEPT ![c] = RollbackError(fnErr[c], ErrRollback)]
  /\ tx' = [tx EXCEPT ![c] = "rollback"]
  /\ TxOver(c)
  /\ UNCHANGED <<store, arg, result, locals>>

Next ==
  \/ \E c \in Callers, a \in TransferTxParams : TransferTx(c, a)
  \/ \E c \in Calls : BeginTx(c)
  \/ \E c \in Calls : CreateTransfer(c)
  \/ \E c \in Calls : CreateFromEntry(c)
  \/ \E c \in Calls : CreateToEntry(c)
  \/ \E c \in Calls : LockFirst(c)
  \/ \E c \in Calls : LockSecond(c)
  \/ \E c \in Calls : AddFrom(c)
  \/ \E c \in Calls : AddTo(c)
  \/ \E c \in Calls : Commit(c)
  \/ \E c \in Calls : Rollback(c)

Spec == Init /\ [][Next]_vars

(* ---- the workload of two accounts and alternating directions ---- *)

(* call c moves amt between accounts 1 and 2: odd calls 1 -> 2, even calls 2 -> 1 *)
PairRequest(c, amt) ==
  IF c % 2 = 1
  THEN [FromAccountID |-> 1, ToAccountID |-> 2, Amount |-> amt]
  ELSE [FromAccountID |-> 2, ToAccountID |-> 1, Amount |-> amt]

PairTransferTx(c) == \E amt \in 1..MaxAmount : TransferTx(c, PairRequest(c, amt))

(* every step call c can take once it has been issued *)
CallStep(c) ==
  \/ BeginTx(c)
  \/ CreateTransfer(c)
  \/ CreateFromEntry(c)
  \/ CreateToEntry(c)
  \/ LockFirst(c)
  \/ LockSecond(c)
  \/ AddFrom(c)
  \/ AddTo(c)
  \/ Commit(c)
  \/ Rollback(c)

PairNext ==
  \/ \E c \in Calls : PairTransferTx(c)
  \/ \E c \in Calls : CallStep(c)

(* every issued call is scheduled again and again (goroutines, store sessions) *)
PairSpec ==
  /\ Init
  /\ [][PairNext]_vars
  /\ \A c \in Calls : WF_vars(PairTransferTx(c) \/ CallStep(c))

(* ---- the workload of three accounts in a ring ---- *)

(* call 1 moves 1 -> 2, call 2 moves 2 -> 3, call 3 moves 3 -> 1 *)
RingRequest(c, amt) ==
  [FromAccountID |-> c, ToAccountID |-> (c % Cardinality(Calls)) + 1, Amount |-> amt]

RingTransferTx(c) == \E amt \in 1..MaxAmount : TransferTx(c, RingRequest(c, amt))

RingNext ==
  \/ \E c \in Calls : RingTransferTx(c)
  \/ \E c \in Calls : CallStep(c)

RingSpec == Init /\ [][RingNext]_vars

(* ---- callbacks that fail unexpectedly ---- *)

(* the positions of a call inside fn, the callback of execTx (store.go 65-94) *)
FnSteps ==
  {"createTransfer", "createFromEntry", "createToEntry", "lockFirst", "lockSecond",
   "addFrom", "addTo"}

(* fn panics at store.go 33: execTx has no deferred Rollback and no recover, so *)
(* the panic leaves execTx and TransferTx at once; neither tx.Rollback nor      *)
(* tx.Commit is called and nothing is returned                                  *)
Panic(c) ==
  /\ pc[c] \in FnSteps
  /\ pc' = [pc EXCEPT ![c] = "panicked"]
  /\ UNCHANGED <<tx, store, lock, txWrites, arg, result, err, fnErr, locals>>

PanicNext ==
  \/ Next
  \/ \E c \in Calls : Panic(c)

PanicSpec == Init /\ [][PanicNext]_vars

(* ---- properties ---- *)

(* call c has returned without error: its transaction committed *)
Succeeded(c) == pc[c] = "done" /\ err[c] = <<>>

(* call c returns without error in this step *)
Succeeds(c) == pc[c] # "done" /\ pc'[c] = "done" /\ err'[c] = <<>>

(* call c has returned an error *)
Failed(c) == pc[c] = "done" /\ err[c] # <<>>

(* C1: when a call succeeds, the step that commits it takes the committed     *)
(* source balance to its value before minus the amount and the destination    *)
(* balance to its value before plus the amount, the request having distinct   *)
(* accounts, a positive amount and a source balance of at least the amount;   *)
(* the sum of the two balances is unchanged.                                  *)
C1_TransferMovesAmount ==
  [][\A c \in Calls :
       Succeeds(c) =>
         LET from == arg[c].FromAccountID
             to == arg[c].ToAccountID
             amount == arg[c].Amount
         IN /\ from # to /\ amount > 0 /\ balance[from] >= amount
            /\ balance'[from] = balance[from] - amount
            /\ balance'[to] = balance[to] + amount
            /\ balance'[from] + balance'[to] = balance[from] + balance[to]]_vars

C1_Witness ==
  \E c \in Calls :
    /\ Succeeded(c)
    /\ balance[arg[c].FromAccountID] = StartBalance - arg[c].Amount
    /\ balance[arg[c].ToAccountID] = StartBalance + arg[c].Amount

(* C2: no committed balance is ever negative. *)
C2_BalanceNeverNegative == \A id \in Accounts : balance[id] >= 0

(* a committed debit has emptied an account and a later call on it was refused *)
C2_Witness ==
  \E c \in Calls, d \in Calls :
    /\ Succeeded(c)
    /\ balance[arg[c].FromAccountID] = 0
    /\ Failed(d)
    /\ arg[d].FromAccountID = arg[c].FromAccountID
    /\ err[d] = <<ErrInsufficient>>

(* the rows and balance changes of a whole transfer of call c *)
TransferRowOf(c) ==
  [ID |-> c, FromAccountID |-> arg[c].FromAccountID, ToAccountID |-> arg[c].ToAccountID,
   Amount |-> arg[c].Amount]

EntryRowsOf(c) ==
  {[ID |-> FromEntryID(c), AccountID |-> arg[c].FromAccountID, Amount |-> 0 - arg[c].Amount],
   [ID |-> ToEntryID(c), AccountID |-> arg[c].ToAccountID, Amount |-> arg[c].Amount]}

BalancesAfter(c) ==
  [id \in Accounts |->
     balance[id] + (IF id = arg[c].ToAccountID THEN arg[c].Amount ELSE 0)
                 - (IF id = arg[c].FromAccountID THEN arg[c].Amount ELSE 0)]

(* C3: every step either leaves the committed store as it is, or makes the    *)
(* whole transfer of one call visible at once: one new Transfer row, its two  *)
(* new Entry rows and both balance changes.                                   *)
C3_AllOrNothing ==
  [][\/ store' = store
     \/ \E c \in Calls :
          /\ arg[c].FromAccountID # arg[c].ToAccountID
          /\ TransferRowOf(c) \notin transfers
          /\ EntryRowsOf(c) \cap entries = {}
          /\ transfers' = transfers \cup {TransferRowOf(c)}
          /\ entries' = entries \cup EntryRowsOf(c)
          /\ balance' = BalancesAfter(c)]_vars

(* one call committed all its writes, another failed after writing and left none *)
C3_Witness ==
  \E c \in Calls, d \in Calls :
    /\ Succeeded(c)
    /\ TransferRowOf(c) \in transfers
    /\ EntryRowsOf(c) \subseteq entries
    /\ Failed(d)
    /\ result[d].ToEntry # ZeroEntry
    /\ TransferRowOf(d) \notin transfers
    /\ EntryRowsOf(d) \cap entries = {}
    /\ Cardinality(transfers) = 1
    /\ Cardinality(entries) = 2

(* call c has issued its request *)
Issued(c) == pc[c] # "idle"

(* no committed row was created by call c *)
NoRowsOf(c) ==
  /\ \A t \in transfers : t.ID # c
  /\ \A e \in entries : e.ID \notin {FromEntryID(c), ToEntryID(c)}

(* call c acquires its second row lock in this step: both accounts are locked *)
LocksBoth(c) ==
  /\ pc[c] = "lockSecond"
  /\ lock[secondAccountID(arg[c])] # c
  /\ lock'[secondAccountID(arg[c])] = c

(* fn of call c has returned the insufficient-funds error and execTx has not ended *)
Refused(c) == pc[c] \in {"rollback", "commit"} /\ fnErr[c] = ErrInsufficient

(* C4: a call that has locked both accounts and whose amount exceeds the      *)
(* locked source balance B fails with the insufficient-funds error; from      *)
(* then on until it returns the balances of both accounts stay as they were,  *)
(* the transaction is rolled back, the returned error reports insufficient    *)
(* funds, and the committed store holds no Transfer or Entry row of the call. *)
C4_InsufficientFundsRollsBack ==
  [][\A c \in Calls :
       /\ (LocksBoth(c) /\ arg[c].Amount > balance[arg[c].FromAccountID])
            => (fnErr'[c] = ErrInsufficient /\ pc'[c] = "rollback" /\ store' = store)
       /\ Refused(c)
            => /\ balance'[arg[c].FromAccountID] = balance[arg[c].FromAccountID]
               /\ balance'[arg[c].ToAccountID] = balance[arg[c].ToAccountID]
               /\ NoRowsOf(c)'
               /\ pc'[c] # pc[c] => (pc'[c] = "done" /\ err'[c][1] = ErrInsufficient
                                      /\ store' = store)]_vars

(* a call was refused although the rows it created were written, with the     *)
(* source locked first and with the source locked second                      *)
C4_Witness ==
  \E c \in Calls, d \in Calls :
    /\ err[c] = <<ErrInsufficient>> /\ err[d] = <<ErrInsufficient>>
    /\ pc[c] = "done" /\ pc[d] = "done"
    /\ arg[c].FromAccountID < arg[c].ToAccountID
    /\ arg[d].FromAccountID > arg[d].ToAccountID
    /\ arg[c].Amount > balance[arg[c].FromAccountID]
    /\ arg[d].Amount > balance[arg[d].FromAccountID]
    /\ result[c].ToEntry # ZeroEntry
    /\ NoRowsOf(c) /\ NoRowsOf(d)
    /\ balance = [id \in Accounts |-> StartBalance]

(* C5: a request whose source and destination are the same account fails      *)
(* with the invalid-request error as soon as it is issued; it never opens a   *)
(* transaction, writes nothing, locks nothing and leaves no committed row.    *)
C5_SameAccountRejected ==
  \A c \in Calls :
    (Issued(c) /\ arg[c].FromAccountID = arg[c].ToAccountID)
      => /\ pc[c] = "done"
         /\ Len(err[c]) = 1 /\ err[c][1] \in InvalidRequest
         /\ result[c] = ZeroResult
         /\ NoRowsOf(c)
         /\ txTransfers[c] = {} /\ txEntries[c] = {} /\ delta[c] = NoDelta
         /\ \A id \in Accounts : lock[id] # c

C5_Witness ==
  \E c \in Calls :
    /\ pc[c] = "done"
    /\ arg[c].FromAccountID = arg[c].ToAccountID
    /\ arg[c].Amount > 0
    /\ err[c] = <<ErrSameAccount>>

(* C6: a request whose amount is zero or negative fails with the              *)
(* invalid-request error as soon as it is issued.                             *)
C6_NonPositiveAmountRejected ==
  \A c \in Calls :
    (Issued(c) /\ arg[c].Amount <= 0)
      => /\ pc[c] = "done"
         /\ Len(err[c]) = 1 /\ err[c][1] \in InvalidRequest

(* a zero amount and a negative amount between distinct accounts were refused *)
C6_Witness ==
  \E c \in Calls, d \in Calls :
    /\ pc[c] = "done" /\ pc[d] = "done"
    /\ arg[c].Amount = 0 /\ arg[d].Amount < 0
    /\ arg[c].FromAccountID # arg[c].ToAccountID
    /\ arg[d].FromAccountID # arg[d].ToAccountID
    /\ err[c] = <<ErrAmount>> /\ err[d] = <<ErrAmount>>

(* the row lock call c is about to ask the store for, if any *)
Wanted(c) ==
  CASE pc[c] = "lockFirst" -> {firstAccountID(arg[c])}
    [] pc[c] = "lockSecond" -> {secondAccountID(arg[c])}
    [] pc[c] = "addFrom" -> {FromBalanceParams(arg[c]).ID}
    [] pc[c] = "addTo" -> {ToBalanceParams(arg[c]).ID}
    [] OTHER -> {}

(* call c waits for a row lock that the transaction of call d holds *)
WaitsFor(c, d) == c # d /\ \E id \in Wanted(c) : lock[id] = d

(* no set of calls in which every call waits for another call of the set *)
NoCircularWait ==
  \A S \in (SUBSET Calls) \ {{}} : \E c \in S : \A d \in S : ~WaitsFor(c, d)

AllDone == \A c \in Calls : pc[c] = "done"

(* C7: calls that alternate direction between accounts 1 and 2 never reach a  *)
(* circular lock wait, and under fair scheduling all of them return.          *)
C7_NoDeadlockAllComplete == []NoCircularWait /\ <>AllDone

(* a call waits for the lock that a call of the opposite direction holds *)
C7_Witness ==
  \E c \in Calls, d \in Calls :
    /\ WaitsFor(c, d)
    /\ arg[c].FromAccountID = arg[d].ToAccountID
    /\ arg[c].ToAccountID = arg[d].FromAccountID
    /\ pc[d] = "lockSecond"

(* the change of the balance of account id that the request of call c asks for *)
DeltaOf(c, id) ==
  (IF id = arg[c].ToAccountID THEN arg[c].Amount ELSE 0)
    - (IF id = arg[c].FromAccountID THEN arg[c].Amount ELSE 0)

RECURSIVE SumDeltas(_, _)
SumDeltas(S, id) ==
  IF S = {} THEN 0
  ELSE LET c == CHOOSE x \in S : TRUE
       IN DeltaOf(c, id) + SumDeltas(S \ {c}, id)

NoneRunning == \A c \in Calls : pc[c] \in {"idle", "done"}

(* C8: once no call is running, every balance is the initial balance plus the *)
(* deltas of the calls that succeeded, whatever the interleaving was.         *)
C8_FinalBalancesAreSumOfDeltas ==
  NoneRunning =>
    \A id \in Accounts :
      balance[id] = StartBalance + SumDeltas({c \in Calls : Succeeded(c)}, id)

(* two calls that ran at the same time on the same two accounts both committed *)
C8_Witness ==
  \E c \in Calls, d \in Calls :
    /\ c # d
    /\ NoneRunning
    /\ Succeeded(c) /\ Succeeded(d)
    /\ {arg[c].FromAccountID, arg[c].ToAccountID} = {arg[d].FromAccountID, arg[d].ToAccountID}
    /\ arg[c].Amount # arg[d].Amount

(* C9, as claimed: a call that returns an error returns no result data. *)
C9_NoResultOnFailure == \A c \in Calls : Failed(c) => result[c] = ZeroResult

(* C10: when fn fails and the rollback fails too, the returned error carries  *)
(* the error of fn first and the rollback error second; whenever a            *)
(* transaction is rolled back the returned error starts with the error of fn. *)
C10_RollbackFailureKeepsCause ==
  [][\A c \in Calls :
       (pc[c] = "rollback" /\ pc'[c] = "done")
         => /\ fnErr[c] # Nil
            /\ err'[c][1] = fnErr[c]
            /\ \/ err'[c] = <<fnErr[c]>>
               \/ err'[c] = <<fnErr[c], ErrRollback>>]_vars

(* a failed rollback after insufficient funds, and one after a failed query *)
C10_Witness ==
  \E c \in Calls, d \in Calls :
    /\ pc[c] = "done" /\ err[c] = <<ErrInsufficient, ErrRollback>>
    /\ pc[d] = "done" /\ err[d] = <<ErrQuery, ErrRollback>>

(* C11: two calls with identical parameters that both succeed leave two       *)
(* distinct Transfer rows and two distinct pairs of Entry rows, and together  *)
(* they take 2 * amount from the source and add 2 * amount to the             *)
(* destination, on top of what the other successful calls did.                *)
C11_TwiceIsTwice ==
  \A c \in Calls, d \in Calls :
    (c # d /\ arg[c] = arg[d] /\ Succeeded(c) /\ Succeeded(d))
      => LET others == {e \in Calls \ {c, d} : Succeeded(e)}
             from == arg[c].FromAccountID
             to == arg[c].ToAccountID
         IN /\ TransferRowOf(c) # TransferRowOf(d)
            /\ {TransferRowOf(c), TransferRowOf(d)} \subseteq transfers
            /\ EntryRowsOf(c) \cap EntryRowsOf(d) = {}
            /\ (EntryRowsOf(c) \cup EntryRowsOf(d)) \subseteq entries
            /\ Cardinality(EntryRowsOf(c) \cup EntryRowsOf(d)) = 4
            /\ balance[from] = StartBalance + SumDeltas(others, from) - 2 * arg[c].Amount
            /\ balance[to] = StartBalance + SumDeltas(others, to) + 2 * arg[c].Amount

C11_Witness ==
  \E c \in Calls, d \in Calls :
    /\ c # d /\ arg[c] = arg[d] /\ Succeeded(c) /\ Succeeded(d)
    /\ Cardinality(transfers) >= 2

(* C12: when a call succeeds, the FromAccount and ToAccount rows of its       *)
(* result carry the committed balances of its source and destination in the   *)
(* state right after its commit.                                              *)
C12_ResultIsCommittedBalance ==
  [][\A c \in Calls :
       Succeeds(c) =>
         /\ result'[c].FromAccount =
              [ID |-> arg[c].FromAccountID, Balance |-> balance'[arg[c].FromAccountID]]
         /\ result'[c].ToAccount =
              [ID |-> arg[c].ToAccountID, Balance |-> balance'[arg[c].ToAccountID]]]_vars

(* a call has just committed while another call waits for one of its accounts *)
C12_Witness ==
  \E c \in Calls, d \in Calls :
    /\ Succeeded(c)
    /\ pc[d] \in {"lockFirst", "lockSecond"}
    /\ Wanted(d) \subseteq {arg[c].FromAccountID, arg[c].ToAccountID}
    /\ result[c].FromAccount =
         [ID |-> arg[c].FromAccountID, Balance |-> balance[arg[c].FromAccountID]]
    /\ result[c].ToAccount =
         [ID |-> arg[c].ToAccountID, Balance |-> balance[arg[c].ToAccountID]]
    /\ result[c].FromAccount.Balance # result[c].ToAccount.Balance

(* call c is no longer inside execTx: it returned, or a panic left it *)
LeftExecTx(c) == pc[c] \in {"done", "panicked"}

(* C13, as claimed: once a call has left execTx on any path, the transaction  *)
(* it began has been ended by tx.Commit or tx.Rollback and holds no row lock. *)
C13_TxEndedOnEveryExit ==
  \A c \in Calls :
    LeftExecTx(c) => (tx[c] # "open" /\ \A id \in Accounts : lock[id] # c)

SmallerID(c) ==
  IF arg[c].FromAccountID < arg[c].ToAccountID
  THEN arg[c].FromAccountID ELSE arg[c].ToAccountID

LargerID(c) ==
  IF arg[c].FromAccountID < arg[c].ToAccountID
  THEN arg[c].ToAccountID ELSE arg[c].FromAccountID

(* C14: a call asks for and takes the row lock of the smaller account id      *)
(* first and of the larger account id second, whichever of them is the        *)
(* source; it asks for the second only while it holds the first, and it       *)
(* takes no row lock at any other point.                                      *)
C14_LocksInAscendingOrder ==
  [][\A c \in Calls :
       /\ pc[c] = "lockFirst" => Wanted(c) = {SmallerID(c)}
       /\ pc[c] = "lockSecond" => (Wanted(c) = {LargerID(c)} /\ lock[SmallerID(c)] = c)
       /\ \A id \in Accounts :
            (lock[id] # c /\ lock'[id] = c)
              => \/ pc[c] = "lockFirst" /\ id = SmallerID(c) /\ lock[LargerID(c)] # c
                 \/ pc[c] = "lockSecond" /\ id = LargerID(c) /\ lock[SmallerID(c)] = c]_vars

(* two calls hold their first lock, one whose source is the smaller id and    *)
(* one whose source is the larger id                                          *)
C14_Witness ==
  \E c \in Calls, d \in Calls :
    /\ pc[c] = "lockSecond" /\ pc[d] = "lockSecond"
    /\ arg[c].FromAccountID > arg[c].ToAccountID
    /\ arg[d].FromAccountID < arg[d].ToAccountID
    /\ lock[arg[c].ToAccountID] = c
    /\ lock[arg[d].FromAccountID] = d

(* C15: the balance check is made in the step that takes the second lock,     *)
(* before any balance delta is written; it refuses the call if and only if    *)
(* the balance of the declared source, as read under its lock, is strictly    *)
(* less than the amount, whether the source is the first or the second        *)
(* locked account; deltas are written only after the check has passed.        *)
C15_CheckOnLockedSource ==
  [][\A c \in Calls :
       LET from == arg[c].FromAccountID
           amount == arg[c].Amount
       IN /\ LocksBoth(c)
               => /\ lock'[from] = c /\ lock'[arg[c].ToAccountID] = c
                  /\ delta[c] = NoDelta /\ delta'[c] = NoDelta
                  /\ firstAccount[c].Balance = balance[firstAccountID(arg[c])]
                  /\ (fnErr'[c] = ErrInsufficient) <=> (balance[from] < amount)
                  /\ (balance[from] >= amount) <=> (pc'[c] = "addFrom")
          /\ (fnErr[c] # ErrInsufficient /\ fnErr'[c] = ErrInsufficient) => LocksBoth(c)
          /\ (delta'[c] # delta[c] /\ delta'[c] # NoDelta)
               => (pc[c] \in {"addFrom", "addTo"} /\ balance[from] >= amount)]_vars

(* an amount equal to the source balance passed the check with the source     *)
(* locked second, and a larger amount was refused with the source locked      *)
(* first                                                                      *)
C15_Witness ==
  \E c \in Calls, d \in Calls :
    /\ pc[c] = "addFrom"
    /\ arg[c].FromAccountID > arg[c].ToAccountID
    /\ arg[c].Amount = balance[arg[c].FromAccountID]
    /\ pc[d] = "done" /\ err[d] = <<ErrInsufficient>>
    /\ arg[d].FromAccountID < arg[d].ToAccountID

(* the committed Entry rows the call that created Transfer row t created *)
EntriesOfTransfer(t) ==
  {e \in entries : e.ID \in {FromEntryID(t.ID), ToEntryID(t.ID)}}

(* C16: in the committed store every Transfer row has exactly two Entry rows  *)
(* of the call that created it, the debit of the source with the amount       *)
(* negated and the credit of the destination with the amount, which sum to    *)
(* zero; every Entry row is one of the two of a committed Transfer row.       *)
C16_TransferHasTwoEntries ==
  /\ \A t \in transfers :
       /\ Cardinality(EntriesOfTransfer(t)) = 2
       /\ \E f \in EntriesOfTransfer(t), g \in EntriesOfTransfer(t) :
            /\ f # g
            /\ f.AccountID = t.FromAccountID /\ f.Amount = 0 - t.Amount
            /\ g.AccountID = t.ToAccountID /\ g.Amount = t.Amount
            /\ f.Amount + g.Amount = 0
  /\ \A e \in entries : \E t \in transfers : e \in EntriesOfTransfer(t)
  /\ \A t \in transfers, u \in transfers : t.ID = u.ID => t = u
  /\ \A e \in entries, f \in entries : e.ID = f.ID => e = f

(* two transfers are committed, with four entries *)
C16_Witness ==
  /\ Cardinality(transfers) = 2
  /\ Cardinality(entries) = 4
  /\ \E t \in transfers : t.Amount > 0 /\ t.FromAccountID > t.ToAccountID

(* call d reads account id for update, or changes its balance, in this step *)
Touches(d, id) ==
  \/ lock[id] # d /\ lock'[id] = d
  \/ delta'[d][id] # delta[d][id]
  \/ /\ pc[d] \in {"lockFirst", "lockSecond", "addFrom", "addTo"}
     /\ id \in Wanted(d)
     /\ pc'[d] \notin {pc[d], "panicked"}
     /\ fnErr'[d] # ErrQuery

(* C17: a row lock has one holder; once call c holds the lock of an account   *)
(* it keeps it until its transaction commits or rolls back, and until then no *)
(* other call takes that lock, reads that account for update or changes its   *)
(* balance; a call has written a balance only of accounts it holds locked.    *)
C17_LocksExclusiveUntilTxEnds ==
  /\ [](\A d \in Calls, id \in Accounts : delta[d][id] # 0 => lock[id] = d)
  /\ [][\A c \in Calls, id \in Accounts :
          lock[id] = c
            => /\ tx[c] = "open"
               /\ lock'[id] \in {c, NoTx}
               /\ lock'[id] = NoTx => tx'[c] \in {"commit", "rollback"}
               /\ \A d \in Calls \ {c} : ~Touches(d, id)
               /\ balance'[id] # balance[id] => tx'[c] = "commit"]_vars

(* one call holds an account another call is asking for *)
C17_Witness ==
  \E c \in Calls, d \in Calls, id \in Accounts :
    /\ c # d
    /\ lock[id] = c
    /\ delta[c][id] # 0
    /\ id \in Wanted(d)

(* C18: a request that fails validation returns at once and leaves no trace   *)
(* of any I/O: no transaction was begun, committed or rolled back, no data    *)
(* access call was made or failed, nothing was read, written or locked.       *)
C18_InvalidRequestDoesNoIO ==
  \A c \in Calls :
    (Issued(c) /\ (arg[c].FromAccountID = arg[c].ToAccountID \/ arg[c].Amount <= 0))
      => /\ pc[c] = "done"
         /\ tx[c] = "none"
         /\ fnErr[c] = Nil
         /\ result[c] = ZeroResult
         /\ txTransfers[c] = {} /\ txEntries[c] = {} /\ delta[c] = NoDelta
         /\ firstAccount[c] = ZeroAccount /\ secondAccount[c] = ZeroAccount
         /\ fromAccount[c] = ZeroAccount
         /\ \A id \in Accounts : lock[id] # c

(* both kinds of invalid request returned without a transaction, while the    *)
(* store was still as constructed                                             *)
C18_Witness ==
  \E c \in Calls, d \in Calls :
    /\ pc[c] = "done" /\ pc[d] = "done"
    /\ arg[c].FromAccountID = arg[c].ToAccountID /\ arg[c].Amount > 0
    /\ arg[d].FromAccountID # arg[d].ToAccountID /\ arg[d].Amount <= 0
    /\ tx[c] = "none" /\ tx[d] = "none"
    /\ transfers = {} /\ entries = {}

RECURSIVE SumAmounts(_)
(* the sum of the amounts of a set of Entry rows *)
SumAmounts(S) ==
  IF S = {} THEN 0
  ELSE LET e == CHOOSE x \in S : TRUE IN e.Amount + SumAmounts(S \ {e})

(* C19: the committed balance of every account is its initial balance plus    *)
(* the amounts of the committed Entry rows of that account.                   *)
C19_BalanceIsInitialPlusEntries ==
  \A id \in Accounts :
    balance[id] = StartBalance + SumAmounts({e \in entries : e.AccountID = id})

(* an account has a committed debit and a committed credit *)
C19_Witness ==
  \E id \in Accounts, e \in entries, f \in entries :
    /\ e.AccountID = id /\ f.AccountID = id
    /\ e.Amount < 0 /\ f.Amount > 0
    /\ Cardinality(entries) = 4

(* C20: with the three calls 1 -> 2, 2 -> 3 and 3 -> 1 running at once, no    *)
(* set of calls waits in a circle, and a call that waits for a row lock holds *)
(* only locks of smaller account ids than the one it waits for.               *)
C20_NoWaitCycleOverThreeAccounts ==
  /\ \A S \in (SUBSET Calls) \ {{}} : \E c \in S : \A d \in S : ~WaitsFor(c, d)
  /\ \A c \in Calls, id \in Accounts :
       (id \in Wanted(c) /\ lock[id] \notin {NoTx, c})
         => \A h \in Accounts : lock[h] = c => h < id

(* a chain of waits through all three calls *)
C20_Witness ==
  \E c \in Calls, d \in Calls, e \in Calls :
    /\ c # d /\ d # e /\ c # e
    /\ WaitsFor(c, d) /\ WaitsFor(d, e)
    /\ arg[c].FromAccountID # arg[d].FromAccountID
    /\ arg[d].FromAccountID # arg[e].FromAccountID
====
